---- MODULE Spec2Model ----
(***************************************************************************)
(* A model of g3d.h: the attribute descriptor (validate, to_string,        *)
(* from_string and the three name registries), the Attribute view over a   *)
(* byte range, the two attribute builders, and the G3d collection.         *)
(*                                                                         *)
(* Strings are sequences of one-character strings, so that split, stoi,    *)
(* operator<< of an int and the ordering of std::map<string, ...> are      *)
(* computed character by character, as the library computes them.          *)
(*                                                                         *)
(* An exception is a result record [res |-> "throw", err |-> what()]; for  *)
(* the exceptions of the standard library err is the exception's type.     *)
(*                                                                         *)
(* g3d.h does not compile as written.  Where a line cannot be taken        *)
(* literally the model reads it as follows, and says so at the place:      *)
(*   - builder.end() (l.477) is builders.end();                            *)
(*   - AttributeBuilderVector (l.485) is AttributeBuilderOwn;              *)
(*   - AttributeBuilderRef<T>(desc, size, data) (l.480) does not fit the   *)
(*     declared constructor (desc, begin, end): it is the range            *)
(*     [data, data + size), or the arguments as written, begin = size as   *)
(*     a pointer and end = data, both being kept (ref_arguments);          *)
(*   - builders.push_back(r) (l.481, l.486) contradicts the std::map       *)
(*     declared at l.457: the entry is stored as written, after those      *)
(*     stored before, and the order of enumeration is the map's or the     *)
(*     sequence's, both being kept (container);                            *)
(*   - the initializer vector(size) (l.440) is buffer(size), and           *)
(*     memcpy_s(begin(), size, data(), size) (l.443) copies `size` bytes   *)
(*     from `data`.                                                        *)
(***************************************************************************)
EXTENDS Integers, Sequences, FiniteSets, TLC

VARIABLES
    builders,   \* G3d::builders: its entries, in the order they were stored
    call,       \* the operation that ran last, with the arguments the properties read
    ret,        \* its outcome
    container,  \* what builders is: the std::map declared, or the sequence push_back asks for
    ref_arguments   \* how new AttributeBuilderRef<T>(desc, size, data) is taken

vars == <<builders, call, ret, container, ref_arguments>>

(***************************************************************************)
(* Characters and strings                                                  *)
(***************************************************************************)

\* The characters the model's strings are made of, in ASCII order
\* (std::string compares by unsigned char value).
Alphabet ==
    << " ", "+", "-",
       "0", "1", "2", "3", "4", "5", "6", "7", "8", "9", ":", "?", "_",
       "a", "b", "c", "d", "e", "f", "g", "h", "i", "j", "k", "l", "m",
       "n", "o", "p", "q", "r", "s", "t", "u", "v", "w", "x", "y", "z" >>

Chars == {Alphabet[i] : i \in 1..Len(Alphabet)}

Ord == [c \in Chars |-> CHOOSE i \in 1..Len(Alphabet) : Alphabet[i] = c]

Digits == <<"0", "1", "2", "3", "4", "5", "6", "7", "8", "9">>

IsDigit(c) == \E i \in 1..10 : Digits[i] = c

DigitValue(c) == (CHOOSE i \in 1..10 : Digits[i] = c) - 1

\* std::string::operator< : lexicographic, a proper prefix is smaller.
RECURSIVE StrLess(_, _)
StrLess(s, t) ==
    IF t = <<>> THEN FALSE
    ELSE IF s = <<>> THEN TRUE
    ELSE IF Head(s) = Head(t) THEN StrLess(Tail(s), Tail(t))
    ELSE Ord[Head(s)] < Ord[Head(t)]

\* operator<<(ostream&, int): base 10, a '-' for a negative value, no padding.
RECURSIVE NatToString(_)
NatToString(n) ==
    IF n < 10 THEN <<Digits[n + 1]>>
    ELSE NatToString(n \div 10) \o <<Digits[(n % 10) + 1]>>

IntToString(n) == IF n < 0 THEN <<"-">> \o NatToString(0 - n) ELSE NatToString(n)

(***************************************************************************)
(* Results                                                                 *)
(***************************************************************************)

Ok(v) == [res |-> "ok", err |-> "", val |-> v]

Throw(e) == [res |-> "throw", err |-> e, val |-> <<>>]

Crash == [res |-> "crash", err |-> "", val |-> <<>>]

\* what() of the exceptions the standard library throws
OutOfRange == "std::out_of_range"

InvalidArgument == "std::invalid_argument"

\* The greatest and the least int32_t (int is int32_t in the builds).
INT32_MAX == 2147483647

INT32_MIN == 0 - INT32_MAX - 1

\* std::stoi(str): strtol in base 10, then the range test of int.  It skips
\* leading whitespace, takes an optional sign and then the longest run of
\* digits; characters after the digits are ignored (pos is not passed).  No
\* digit at all throws std::invalid_argument; a value outside
\* INT32_MIN..INT32_MAX throws std::out_of_range.
RECURSIVE SkipSpace(_)
SkipSpace(s) == IF s # <<>> /\ Head(s) = " " THEN SkipSpace(Tail(s)) ELSE s

RECURSIVE DigitRun(_)
DigitRun(s) == IF s # <<>> /\ IsDigit(Head(s)) THEN <<Head(s)>> \o DigitRun(Tail(s)) ELSE <<>>

\* What DigitsValue yields once the magnitude has passed that of INT32_MIN.
Overflowed == 1

\* The value of a run of digits, accumulated negated (so that the magnitude of
\* INT32_MIN is held) and tested against the cutoff before each step, as
\* strtol does.
RECURSIVE DigitsValue(_, _)
DigitsValue(acc, ds) ==
    IF ds = <<>> \/ acc = Overflowed THEN acc
    ELSE IF \/ acc < 0 - (INT32_MAX \div 10)
            \/ acc = 0 - (INT32_MAX \div 10) /\ DigitValue(Head(ds)) > (INT32_MAX % 10) + 1
         THEN Overflowed
    ELSE DigitsValue(acc * 10 - DigitValue(Head(ds)), Tail(ds))

stoi(str) ==
    LET Ranged(sign, neg) ==
            IF neg = Overflowed \/ (sign # "-" /\ neg = INT32_MIN) THEN Throw(OutOfRange)
            ELSE Ok(IF sign = "-" THEN neg ELSE 0 - neg)
        Digits10(sign, ds) ==
            IF ds = <<>> THEN Throw(InvalidArgument) ELSE Ranged(sign, DigitsValue(0, ds))
        Signed(s0, sign) == Digits10(sign, DigitRun(IF sign = "" THEN s0 ELSE Tail(s0)))
        Unspaced(s0) == Signed(s0, IF s0 # <<>> /\ Head(s0) \in {"+", "-"} THEN Head(s0) ELSE "")
    IN  Unspaced(SkipSpace(str))
\* enum DataType (g3d.h:97-111): enumerators count up from 0.
dt_uint8 == 0
dt_uint16 == 1
dt_uint32 == 2
dt_uint64 == 3
dt_uint128 == 4
dt_int8 == 5
dt_int16 == 6
dt_int32 == 7
dt_int64 == 8
dt_int128 == 9
dt_float16 == 10
dt_float32 == 11
dt_float64 == 12
dt_float128 == 13
dt_invalid == 14

\* enum Association (g3d.h:117-123): enumerators count up from 0.
assoc_vertex == 0
assoc_face == 1
assoc_corner == 2
assoc_edge == 3
assoc_object == 4
assoc_none == 5
assoc_invalid == 6

\* enum AttributeType (g3d.h:129-149): enumerators count up from 0.
attr_custom == 0
attr_coordinate == 1
attr_index == 2
attr_faceindex == 3
attr_facesize == 4
attr_normal == 5
attr_binormal == 6
attr_tangent == 7
attr_materialid == 8
attr_polygroup == 9
attr_uv == 10
attr_color == 11
attr_smoothing == 12
attr_crease == 13
attr_hole == 14
attr_invisibility == 15
attr_selection == 16
attr_pervertex == 17
attr_mapchannel_data == 18
attr_mapchannel_index == 19
attr_invalid == 20

\* std::map<int32_t, string> built at g3d.h:228-247; a name is a sequence of characters.
data_types_to_strings ==
       (dt_uint8 :> <<"u", "i", "n", "t", "8">>)  \* "uint8"
    @@ (dt_uint16 :> <<"u", "i", "n", "t", "1", "6">>)  \* "uint16"
    @@ (dt_uint32 :> <<"u", "i", "n", "t", "3", "2">>)  \* "uint32"
    @@ (dt_uint64 :> <<"u", "i", "n", "t", "6", "4">>)  \* "uint64"
    @@ (dt_uint128 :> <<"u", "i", "n", "t", "1", "2", "8">>)  \* "uint128"
    @@ (dt_int8 :> <<"i", "n", "t", "8">>)  \* "int8"
    @@ (dt_int16 :> <<"i", "n", "t", "1", "6">>)  \* "int16"
    @@ (dt_int32 :> <<"i", "n", "t", "3", "2">>)  \* "int32"
    @@ (dt_int64 :> <<"i", "n", "t", "6", "4">>)  \* "int64"
    @@ (dt_int128 :> <<"i", "n", "t", "1", "2", "8">>)  \* "int128"
    @@ (dt_float16 :> <<"f", "l", "o", "a", "t", "1", "6">>)  \* "float16"
    @@ (dt_float32 :> <<"f", "l", "o", "a", "t", "3", "2">>)  \* "float32"
    @@ (dt_float64 :> <<"f", "l", "o", "a", "t", "6", "4">>)  \* "float64"
    @@ (dt_float128 :> <<"f", "l", "o", "a", "t", "1", "2", "8">>)  \* "float128"
    @@ (dt_invalid :> <<"i", "n", "v", "a", "l", "i", "d">>)  \* "invalid"

\* std::map<int32_t, string> built at g3d.h:254-265; a name is a sequence of characters.
associations_to_strings ==
       (assoc_vertex :> <<"v", "e", "r", "t", "e", "x">>)  \* "vertex"
    @@ (assoc_face :> <<"f", "a", "c", "e">>)  \* "face"
    @@ (assoc_corner :> <<"c", "o", "r", "n", "e", "r">>)  \* "corner"
    @@ (assoc_edge :> <<"e", "d", "g", "e">>)  \* "edge"
    @@ (assoc_object :> <<"o", "b", "j", "e", "c", "t">>)  \* "object"
    @@ (assoc_none :> <<"n", "o", "n", "e">>)  \* "none"
    @@ (assoc_invalid :> <<"i", "n", "v", "a", "l", "i", "d">>)  \* "invalid"

\* std::map<int32_t, string> built at g3d.h:272-295; a name is a sequence of characters.
attribute_types_to_strings ==
       (attr_custom :> <<"c", "u", "s", "t", "o", "m">>)  \* "custom"
    @@ (attr_coordinate :> <<"c", "o", "o", "r", "d", "i", "n", "a", "t", "e">>)  \* "coordinate"
    @@ (attr_index :> <<"i", "n", "d", "e", "x">>)  \* "index"
    @@ (attr_faceindex :> <<"f", "a", "c", "e", "i", "n", "d", "e", "x">>)  \* "faceindex"
    @@ (attr_facesize :> <<"f", "a", "c", "e", "s", "i", "z", "e">>)  \* "facesize"
    @@ (attr_normal :> <<"n", "o", "r", "m", "a", "l">>)  \* "normal"
    @@ (attr_binormal :> <<"b", "i", "n", "o", "r", "m", "a", "l">>)  \* "binormal"
    @@ (attr_tangent :> <<"t", "a", "n", "g", "e", "n", "t">>)  \* "tangent"
    @@ (attr_materialid :> <<"m", "a", "t", "e", "r", "i", "a", "l", "i", "d">>)  \* "materialid"
    @@ (attr_polygroup :> <<"p", "o", "l", "y", "g", "r", "o", "u", "p">>)  \* "polygroup"
    @@ (attr_uv :> <<"u", "v">>)  \* "uv"
    @@ (attr_color :> <<"c", "o", "l", "o", "r">>)  \* "color"
    @@ (attr_smoothing :> <<"s", "m", "o", "o", "t", "h", "i", "n", "g">>)  \* "smoothing"
    @@ (attr_crease :> <<"c", "r", "e", "a", "s", "e">>)  \* "crease"
    @@ (attr_hole :> <<"h", "o", "l", "e">>)  \* "hole"
    @@ (attr_invisibility :> <<"i", "n", "v", "i", "s", "i", "b", "i", "l", "i", "t", "y">>)  \* "invisibility"
    @@ (attr_selection :> <<"s", "e", "l", "e", "c", "t", "i", "o", "n">>)  \* "selection"
    @@ (attr_pervertex :> <<"p", "e", "r", "v", "e", "r", "t", "e", "x">>)  \* "pervertex"
    @@ (attr_invalid :> <<"i", "n", "v", "a", "l", "i", "d">>)  \* "invalid"

(***************************************************************************)
(* The name registries                                                     *)
(***************************************************************************)

\* std::map::at(key): the mapped value, or std::out_of_range.
MapAt(m, k) == IF k \in DOMAIN m THEN Ok(m[k]) ELSE Throw(OutOfRange)

\* for (kv : m) r[kv.second] = kv.first, in ascending key order: were a name
\* mapped from two values, the greater value would be the one kept.
reverse_map(m) ==
    [s \in {m[k] : k \in DOMAIN m} |->
        CHOOSE k \in DOMAIN m : m[k] = s /\ \A j \in DOMAIN m : m[j] = s => j <= k]

data_types_from_strings == reverse_map(data_types_to_strings)

associations_from_strings == reverse_map(associations_to_strings)

attribute_types_from_strings == reverse_map(attribute_types_to_strings)

data_type_to_string(dt) == MapAt(data_types_to_strings, dt)

data_type_from_string(s) == MapAt(data_types_from_strings, s)

association_to_string(assoc) == MapAt(associations_to_strings, assoc)

association_from_string(s) == MapAt(associations_from_strings, s)

attribute_type_to_string(attr) == MapAt(attribute_types_to_strings, attr)

attribute_type_from_string(s) == MapAt(attribute_types_from_strings, s)

(***************************************************************************)
(* Error kinds                                                             *)
(***************************************************************************)

InternalError == "Internal error: parsed attribute descriptor does not match generated attribute descriptor"

\* The kind of error each exception of the code stands for.  The code throws
\* runtime_error with a message, or lets a standard exception escape:
\* std::out_of_range comes from map::at (a registry miss) and from stoi (a
\* value that fits no int), std::invalid_argument from stoi (no digits).
ErrorKind(e) ==
    CASE e \in {"association out of range", "attribute type out of range",
                "data type out of range"}                      -> "RangeError"
      [] e = "data arity must be greater than zero"            -> "ArityError"
      [] e \in {"Insufficient tokens", "Expected g3d", "Too many tokens",
                InvalidArgument}                               -> "MalformedError"
      [] e \in {OutOfRange, "invalid data type"}               -> "LookupError"
      [] e = InternalError                                     -> "InternalConsistencyError"
      [] e = "Data buffer is not the correct alignment"        -> "AlignmentError"
      [] e = "Null parameters"                                 -> "NullRangeError"
      [] e = "Attribute descriptor already exists"             -> "DuplicateAttributeError"
      [] OTHER                                                 -> "none"

(***************************************************************************)
(* AttributeDescriptor                                                     *)
(***************************************************************************)

\* The five int32 fields of the struct (the three pad fields are never read).
Descriptor(assoc, attr, index, arity, dt) ==
    [association |-> assoc, attribute_type |-> attr, attribute_type_index |-> index,
     data_arity |-> arity, data_type |-> dt]

\* validate() with the arity check off by one: an arity of 0 passes.
validate_arity_off_by_one(d) ==
    IF d.association < 0 \/ d.association >= assoc_invalid THEN "association out of range"
    ELSE IF d.attribute_type < 0 \/ d.attribute_type >= attr_invalid THEN "attribute type out of range"
    ELSE IF d.data_arity < 0 THEN "data arity must be greater than zero"
    ELSE IF d.data_type < 0 \/ d.data_type >= dt_invalid THEN "data type out of range"
    ELSE ""

\* validate(): the four checks in the order of the code; "" when none throws.
validate(d) ==
    IF d.association < 0 \/ d.association >= assoc_invalid THEN "association out of range"
    ELSE IF d.attribute_type < 0 \/ d.attribute_type >= attr_invalid THEN "attribute type out of range"
    ELSE IF d.data_arity <= 0 THEN "data arity must be greater than zero"
    ELSE IF d.data_type < 0 \/ d.data_type >= dt_invalid THEN "data type out of range"
    ELSE ""

\* data_type_size with the default label returning 0 instead of throwing.
data_type_size_default_zero(dt) ==
    IF dt \in dt_uint8..dt_float128
    THEN Ok(<<1, 2, 4, 8, 16, 1, 2, 4, 8, 16, 2, 4, 8, 16>>[dt + 1])
    ELSE Ok(0)

\* static data_type_size(DataType): the switch, default throws.
data_type_size(dt) ==
    CASE dt = dt_uint8    -> Ok(1)
      [] dt = dt_uint16   -> Ok(2)
      [] dt = dt_uint32   -> Ok(4)
      [] dt = dt_uint64   -> Ok(8)
      [] dt = dt_uint128  -> Ok(16)
      [] dt = dt_int8     -> Ok(1)
      [] dt = dt_int16    -> Ok(2)
      [] dt = dt_int32    -> Ok(4)
      [] dt = dt_int64    -> Ok(8)
      [] dt = dt_int128   -> Ok(16)
      [] dt = dt_float16  -> Ok(2)
      [] dt = dt_float32  -> Ok(4)
      [] dt = dt_float64  -> Ok(8)
      [] dt = dt_float128 -> Ok(16)
      [] OTHER            -> Throw("invalid data type")

association_string(d) == association_to_string(d.association)

data_type_string(d) == data_type_to_string(d.data_type)

\* The code passes data_type(), not attribute_type(), to attribute_type_to_string.
attribute_type_string(d) == attribute_type_to_string(d.data_type)

\* to_string(): what the ostringstream holds when the function returns; a
\* registry lookup that throws ends it.
to_string(d) ==
    LET Text(a, t, n) ==
            IF a.res # "ok" THEN a
            ELSE IF t.res # "ok" THEN t
            ELSE IF n.res # "ok" THEN n
            ELSE Ok(<<"g", "3", "d">>
                    \o <<":">> \o a.val
                    \o <<":">> \o t.val
                    \o <<":">> \o IntToString(d.attribute_type_index)
                    \o <<":">> \o n.val
                    \o <<":">> \o IntToString(d.data_arity))
    IN  Text(association_string(d), attribute_type_string(d), data_type_string(d))

\* to_string() returns const string& bound to the temporary oss.str(), which is
\* destroyed at the return: the caller's copy reads a dangling reference.  What
\* the copy holds is one of: the text (the storage was not reused yet), other
\* bytes, or nothing because the read faults.
UBOutcomes == {"intact", "garbage", "crash"}

\* The bytes a copy of reused storage holds: some string that is no descriptor.
Garbage == <<"?">>

\* The caller's copy of to_string()'s result under outcome u.
to_string_copy(d, u) ==
    LET Copy(r) ==
            IF r.res # "ok" THEN r
            ELSE IF u = "crash" THEN Crash
            ELSE IF u = "garbage" THEN Ok(Garbage)
            ELSE r
    IN  Copy(to_string(d))

\* split(s, delim): getline until it extracts nothing at the end of the stream.
\* An empty token between two delimiters is kept, an empty one after the last
\* delimiter is not.
RECURSIVE split(_, _)
split(s, delim) ==
    IF s = <<>> THEN <<>>
    ELSE IF \E i \in 1..Len(s) : s[i] = delim
         THEN LET i == CHOOSE j \in 1..Len(s) : s[j] = delim /\ \A k \in 1..(j - 1) : s[k] # delim
              IN  <<SubSeq(s, 1, i - 1)>> \o split(SubSeq(s, i + 1, Len(s)), delim)
         ELSE <<s>>

\* from_string(s): the statements of the code in order; the first that throws
\* decides the outcome.  u is the outcome of copying to_string()'s result.
\* Parsed holds the lookups and conversions of the tokens, each made only when
\* the statements before it passed; Checked is validate(), the token count
\* and the comparison of desc.to_string() with s.
from_string(s, u) ==
    LET Compared(desc, tmp) ==
            IF tmp.res # "ok" THEN tmp
            ELSE IF tmp.val # s THEN Throw(InternalError)
            ELSE Ok(desc)
        Checked(desc, n, msg) ==
            IF msg # "" THEN Throw(msg)
            ELSE IF n # 6 THEN Throw("Too many tokens")
            ELSE Compared(desc, to_string_copy(desc, u))
        Built(desc, n) == Checked(desc, n, validate(desc))
        Parsed(tokens, n, assoc, attr, index, dt, arity) ==
            IF n = 0 THEN Throw("Insufficient tokens")
            ELSE IF tokens[1] # <<"g", "3", "d">> THEN Throw("Expected g3d")
            ELSE IF n = 1 THEN Throw("Insufficient tokens")
            ELSE IF assoc.res # "ok" THEN assoc
            ELSE IF n = 2 THEN Throw("Insufficient tokens")
            ELSE IF attr.res # "ok" THEN attr
            ELSE IF n = 3 THEN Throw("Insufficient tokens")
            ELSE IF index.res # "ok" THEN index
            ELSE IF n = 4 THEN Throw("Insufficient tokens")
            ELSE IF dt.res # "ok" THEN dt
            ELSE IF n = 5 THEN Throw("Insufficient tokens")
            ELSE IF arity.res # "ok" THEN arity
            ELSE Built(Descriptor(assoc.val, attr.val, index.val, arity.val, dt.val), n)
        Tokens(tokens) ==
            Parsed(tokens, Len(tokens),
                   association_from_string(tokens[2]),
                   attribute_type_from_string(tokens[3]),
                   stoi(tokens[4]),
                   data_type_from_string(tokens[5]),
                   stoi(tokens[6]))
    IN  Tokens(split(s, ":"))

(***************************************************************************)
(* Attribute and the two builders                                          *)
(***************************************************************************)

\* What an integer division by zero does (undefined behaviour): the instruction
\* traps, or the target has no trap and the remainder left is the dividend.
DivZeroOutcomes == {"trap", "no_trap"}

\* What an int32_t product outside INT32_MIN..INT32_MAX does (undefined
\* behaviour): the build keeps the low 32 bits of the product, or it traps
\* (-ftrapv, a sanitizer).
IntOverflowOutcomes == {"wrap", "trap"}

\* size * arity in int32_t, size a data type size (1, 2, 4, 8 or 16, so a
\* divisor of 2^31).  The product fits exactly when arity lies in
\* -(2^31 / size) .. INT32_MAX / size.  The wrapped product is the residue of
\* size * arity modulo 2^32 in INT32_MIN..INT32_MAX: arity is reduced modulo
\* 2^32 / size into -half .. half - 1, half = 2^31 / size, before multiplying.
int32_product(size, arity, ovf) ==
    LET Wrapped(half) ==
            (IF (arity \div half) % 2 = 0 THEN arity % half ELSE (arity % half) - half) * size
        Product(limit) ==
            IF 0 - limit - 1 <= arity /\ arity <= limit THEN Ok(size * arity)
            ELSE IF ovf = "trap" THEN Crash
            ELSE Ok(Wrapped(limit + 1))
    IN  Product(INT32_MAX \div size)

\* The decimal digits of 2^64.
Two64 == <<1, 8, 4, 4, 6, 7, 4, 4, 0, 7, 3, 7, 0, 9, 5, 5, 1, 6, 1, 6>>

\* The digits 1..i of 2^64 + m for m < 0, by addition of the ten's complement
\* of m with carry, from the last digit to the first.
RECURSIVE Two64Plus(_, _, _)
Two64Plus(i, m, carry) ==
    IF i = 0 THEN <<>>
    ELSE Two64Plus(i - 1, m \div 10, (Two64[i] + (m % 10) + carry) \div 10)
            \o <<Digits[((Two64[i] + (m % 10) + carry) % 10) + 1]>>

\* The conversion of an int32_t to size_t (64 bits): p itself when p >= 0,
\* 2^64 + p otherwise.  A value of the second kind is beyond the integers of
\* the model and is held as the string of its decimal digits.
size_t(p) == IF p >= 0 THEN p ELSE Two64Plus(Len(Two64), p, 0)

\* The int32_t value of descriptor.data_type_size() * descriptor.data_arity().
element_product(d, ovf) ==
    LET Product(sz) ==
            IF sz.res # "ok" THEN sz ELSE int32_product(sz.val, d.data_arity, ovf)
    IN  Product(data_type_size(d.data_type))

\* Attribute::data_element_size(): the int32_t product, returned as size_t.
data_element_size(d, ovf) ==
    LET Converted(p) == IF p.res # "ok" THEN p ELSE Ok(size_t(p.val))
    IN  Converted(element_product(d, ovf))

\* byte_size() % data_element_size() != 0, both operands size_t, stated on the
\* int32_t product the element size is converted from.  A negative product
\* converts to a size_t above any byte size, so the remainder is the byte size
\* itself.
Misaligned(byte_size, product, div0) ==
    IF product > 0 THEN byte_size % product # 0
    ELSE IF product < 0 THEN byte_size # 0
    ELSE div0 = "no_trap" /\ byte_size # 0

\* Attribute::num_elements(): byte_size() / data_element_size(), on the int32_t
\* product: 0 when the element size is above the byte size, and for the
\* untrapped division by zero.
num_elements(byte_size, product) == IF product > 0 THEN byte_size \div product ELSE 0

\* Attribute(desc, begin, end): the null test, then the alignment test, whose
\* data_element_size() may throw, overflow (outcome ovf) or be 0 (outcome
\* div0).  The value built carries what byte_size(), data_element_size() and
\* num_elements() return for it; es is the int32_t product the element size is
\* converted from.
Attribute(desc, begin_null, end_null, byte_size, div0, ovf) ==
    LET View(es) ==
            IF begin_null \/ end_null THEN Throw("Null parameters")
            ELSE IF es.res # "ok" THEN es
            ELSE IF es.val = 0 /\ div0 = "trap" THEN Crash
            ELSE IF Misaligned(byte_size, es.val, div0)
                 THEN Throw("Data buffer is not the correct alignment")
            ELSE Ok([descriptor |-> desc, byte_size |-> byte_size,
                     data_element_size |-> size_t(es.val),
                     num_elements |-> num_elements(byte_size, es.val)])
    IN  View(element_product(desc, ovf))

\* The null pointer; the other addresses are positive numbers.
nullptr == 0

\* AttributeBuilderRef<T>(descriptor, begin, end): an Attribute over the bytes
\* from address begin to address end (begin <= end).
AttributeBuilderRef(desc, begin, end, div0, ovf) ==
    LET Builder(a) ==
            IF a.res # "ok" THEN a
            ELSE Ok([attribute |-> a.val, owns |-> FALSE, buffer |-> <<>>])
    IN  Builder(Attribute(desc, begin = nullptr, end = nullptr, end - begin, div0, ovf))

\* The bytes of the caller's source: byte i holds i (never 0).
SourceByte(i) == i

\* A byte read beyond the end of the source.
StrayByte == 0 - 1

\* AttributeBuilderOwn<T>(descriptor, size, data): buffer is a vector<T> of
\* `size` zeroed values, so size * sizeof(T) bytes; data() of the empty vector
\* is null.  The Attribute views the whole buffer.  With a source, memcpy_s
\* copies `size` bytes (not size * sizeof(T)) from it; the source's length is
\* not known to the constructor, and reading beyond it (undefined behaviour)
\* faults or yields stray bytes.
AttributeBuilderOwn(desc, size, tsize, has_data, src_len, div0, ovf, over) ==
    LET Builder(bytes, a) ==
            IF a.res # "ok" THEN a
            ELSE IF has_data /\ size > src_len /\ over = "crash" THEN Crash
            ELSE Ok([attribute |-> a.val, owns |-> TRUE,
                     buffer |-> [i \in 1..bytes |->
                                    IF has_data /\ i <= size
                                    THEN (IF i <= src_len THEN SourceByte(i) ELSE StrayByte)
                                    ELSE 0]])
    IN  Builder(size * tsize, Attribute(desc, size = 0, size = 0, size * tsize, div0, ovf))
\* The descriptor strings the convenience constructors pass to add_attribute.
\* "g3d:vertex:coordinate:0:float32:3"
VerticesDescriptor ==
    <<"g", "3", "d", ":", "v", "e", "r", "t", "e", "x", ":", "c", "o", "o", "r", "d", "i",
      "n", "a", "t", "e", ":", "0", ":", "f", "l", "o", "a", "t", "3", "2", ":", "3">>

\* "g3d:vertex:coordinate:0:float32:4"
VerticesAsFloat4Descriptor ==
    <<"g", "3", "d", ":", "v", "e", "r", "t", "e", "x", ":", "c", "o", "o", "r", "d", "i",
      "n", "a", "t", "e", ":", "0", ":", "f", "l", "o", "a", "t", "3", "2", ":", "4">>

\* "g3d:corner:index:0:int32:1"
IndexesDescriptor ==
    <<"g", "3", "d", ":", "c", "o", "r", "n", "e", "r", ":", "i", "n", "d", "e", "x", ":",
      "0", ":", "i", "n", "t", "3", "2", ":", "1">>

\* "g3d:vertex:uv:0:float32:2"
UvsDescriptor ==
    <<"g", "3", "d", ":", "v", "e", "r", "t", "e", "x", ":", "u", "v", ":", "0", ":", "f",
      "l", "o", "a", "t", "3", "2", ":", "2">>

\* "g3d:vertex:uv:1:float32:2"
Uv2sDescriptor ==
    <<"g", "3", "d", ":", "v", "e", "r", "t", "e", "x", ":", "u", "v", ":", "1", ":", "f",
      "l", "o", "a", "t", "3", "2", ":", "2">>

\* "g3d:vertex:uv:0:float32:3"
VertexNormalsDescriptor ==
    <<"g", "3", "d", ":", "v", "e", "r", "t", "e", "x", ":", "u", "v", ":", "0", ":", "f",
      "l", "o", "a", "t", "3", "2", ":", "3">>

\* "g3d:face:material_id:0:int32:1"
MaterialIdsDescriptor ==
    <<"g", "3", "d", ":", "f", "a", "c", "e", ":", "m", "a", "t", "e", "r", "i", "a", "l",
      "_", "i", "d", ":", "0", ":", "i", "n", "t", "3", "2", ":", "1">>

\* "g3d:none:map_channel_data:0:float32:3"
MapChannelDataDescriptor ==
    <<"g", "3", "d", ":", "n", "o", "n", "e", ":", "m", "a", "p", "_", "c", "h", "a", "n",
      "n", "e", "l", "_", "d", "a", "t", "a", ":", "0", ":", "f", "l", "o", "a", "t", "3",
      "2", ":", "3">>

\* "g3d:corner:map_channel_index:0:int32:1"
MapChannelIndexDescriptor ==
    <<"g", "3", "d", ":", "c", "o", "r", "n", "e", "r", ":", "m", "a", "p", "_", "c", "h",
      "a", "n", "n", "e", "l", "_", "i", "n", "d", "e", "x", ":", "0", ":", "i", "n", "t",
      "3", "2", ":", "1">>

\* "g3d:vertex:color:0:float32:2": color is the attribute type numbered like float32
ColorFloat32String ==
    <<"g", "3", "d", ":", "v", "e", "r", "t", "e", "x", ":", "c", "o", "l", "o", "r", ":",
      "0", ":", "f", "l", "o", "a", "t", "3", "2", ":", "2">>

\* "g3d:vertex:uv:0:float16:2": uv is the attribute type numbered like float16
UvFloat16String ==
    <<"g", "3", "d", ":", "v", "e", "r", "t", "e", "x", ":", "u", "v", ":", "0", ":", "f",
      "l", "o", "a", "t", "1", "6", ":", "2">>

\* "g3d:vertex:uv": too few tokens
TruncatedString ==
    <<"g", "3", "d", ":", "v", "e", "r", "t", "e", "x", ":", "u", "v">>

\* Descriptor strings passed to add_attribute(const string&, ...).
StringArguments == {ColorFloat32String, UvFloat16String, UvsDescriptor, TruncatedString}

(***************************************************************************)
(* G3d: the collection                                                     *)
(***************************************************************************)

\* builders is declared std::map<string, AttributeBuilderBase*> (l.457), and
\* add_attribute stores into it with builders.push_back(r) (l.481, l.486), an
\* operation of a sequence that a std::map does not have: the code does not
\* compile, and what the collection is depends on how the contradiction is
\* resolved.  Both resolutions are kept: builders is the map of the
\* declaration, r being inserted under `name`, or it is the sequence that
\* push_back appends to.  container holds the resolution; it never changes.
Containers == {"map", "vector"}

\* The model keeps the entries [key, builder] in the order they were stored;
\* the order in which they are enumerated is the container's.

\* builders.find(name) != builders.end()
Find(b, name) == \E i \in 1..Len(b) : b[i].key = name

\* builders.push_back(r): the entry stored after those stored before.
push_back(b, entry) == Append(b, entry)

\* The keys in the order they were stored.
StoredKeys(b) == [i \in 1..Len(b) |-> b[i].key]

\* The place of a key among keys kept ascending (std::less<string>).
InsertByKey(keys, k) ==
    SelectSeq(keys, LAMBDA e : StrLess(e, k)) \o <<k>> \o SelectSeq(keys, LAMBDA e : ~StrLess(e, k))

\* The keys as a std::map iterates them: ascending, whatever the order in
\* which they were inserted.
RECURSIVE KeyOrder(_)
KeyOrder(keys) ==
    IF keys = <<>> THEN <<>>
    ELSE InsertByKey(KeyOrder(SubSeq(keys, 1, Len(keys) - 1)), keys[Len(keys)])

\* The keys in the order in which the collection enumerates its entries
\* (for (auto kv : builders), l.468): that of the container c.
Keys(b, c) == IF c = "map" THEN KeyOrder(StoredKeys(b)) ELSE StoredKeys(b)

\* The outcome of one call on the collection: how it ended, the collection it
\* leaves, and whether the outcome taken for each copy of a to_string() result
\* in the call was "intact".
Run(res, err, b, clean) == [res |-> res, err |-> err, b |-> b, clean |-> clean]

\* new AttributeBuilderRef<T>(desc, size, data) (l.480) does not fit the one
\* constructor declared, (descriptor, T* begin, T* end).  Both ways of taking
\* the line are kept: "range", the range of `size` values of T that begins at
\* data, and "written", the arguments as they stand (the build g++ makes of
\* the line with -fpermissive), where begin is (T*)size and end is data.
RefArguments == {"range", "written"}

\* The builder add_attribute creates: with a data pointer, a reference, its
\* begin and end those of ref; without, an owning builder (written
\* AttributeBuilderVector in the code).  The descriptors that reach it here
\* have an arity >= 1, so no division by zero arises, and so small that no
\* product overflows.
NewBuilder(desc, size, data, tsize, ref) ==
    IF data # nullptr
    THEN IF ref = "range"
         THEN AttributeBuilderRef(desc, data, data + size * tsize, "trap", "trap")
         ELSE AttributeBuilderRef(desc, size, data, "trap", "trap")
    ELSE AttributeBuilderOwn(desc, size, tsize, FALSE, 0, "trap", "trap", "crash")

\* add_attribute with the new entry stored before its builder is constructed.
add_attribute_store_first(b, desc, size, data, tsize, u, ref) ==
    LET Store(name, r) ==
            Run(r.res, r.err, push_back(b, [key |-> name.val, builder |-> r.val]), u = "intact")
        Named(name) ==
            IF name.res = "crash" THEN Run("crash", "", b, FALSE)
            ELSE IF name.res = "throw" THEN Run("throw", name.err, b, u = "intact")
            ELSE IF Find(b, name.val)
                 THEN Run("throw", "Attribute descriptor already exists", b, u = "intact")
            ELSE Store(name, NewBuilder(desc, size, data, tsize, ref))
    IN  Named(to_string_copy(desc, u))

\* add_attribute(const AttributeDescriptor&, size, data): the key is a copy of
\* to_string()'s result (outcome u); a key already present throws; the builder
\* is constructed, which may throw; then it is stored.
add_attribute(b, desc, size, data, tsize, u, ref) ==
    LET Store(name, r) ==
            IF r.res # "ok" THEN Run(r.res, r.err, b, u = "intact")
            ELSE Run("ok", "", push_back(b, [key |-> name.val, builder |-> r.val]), u = "intact")
        Named(name) ==
            IF name.res = "crash" THEN Run("crash", "", b, FALSE)
            ELSE IF name.res = "throw" THEN Run("throw", name.err, b, u = "intact")
            ELSE IF Find(b, name.val)
                 THEN Run("throw", "Attribute descriptor already exists", b, u = "intact")
            ELSE Store(name, NewBuilder(desc, size, data, tsize, ref))
    IN  Named(to_string_copy(desc, u))

\* The runs of from_string(s) on collection b: a set, one run for each outcome
\* u of the copy; val is the descriptor returned.
from_string_runs(b, s) ==
    { LET R(d) == [res |-> d.res, err |-> d.err, b |-> b, val |-> d.val,
                   clean |-> u = "intact"]
      IN  R(from_string(s, u))
      : u \in UBOutcomes }

\* The runs of add_attribute(desc, ...), one for each way the copy can come out.
add_attribute_runs(b, desc, size, data, tsize, ref) ==
    {add_attribute(b, desc, size, data, tsize, u, ref) : u \in UBOutcomes}

\* The run of a call that made run p and then run r.
After(p, r) == Run(r.res, r.err, r.b, p.clean /\ r.clean)

\* add_attribute(const string&, size, data):
\* add_attribute(AttributeDescriptor::from_string(desc), size, data)
add_attribute_str(b, s, size, data, tsize, ref) ==
    UNION { IF p.res # "ok" THEN {Run(p.res, p.err, b, p.clean)}
            ELSE {After(p, r) : r \in add_attribute_runs(b, p.val, size, data, tsize, ref)}
          : p \in from_string_runs(b, s) }

\* sizeof(float) and sizeof(int32_t), the T of the convenience constructors.
SizeofFloat == 4

SizeofInt32 == 4

add_vertices(b, size, data, ref) ==
    add_attribute_str(b, VerticesDescriptor, size, data, SizeofFloat, ref)

add_vertices_as_float4(b, size, data, ref) ==
    add_attribute_str(b, VerticesAsFloat4Descriptor, size, data, SizeofFloat, ref)

add_indexes(b, size, data, ref) ==
    add_attribute_str(b, IndexesDescriptor, size, data, SizeofInt32, ref)

add_uvs(b, size, data, ref) ==
    add_attribute_str(b, UvsDescriptor, size, data, SizeofFloat, ref)

add_uv2s(b, size, data, ref) ==
    add_attribute_str(b, Uv2sDescriptor, size, data, SizeofFloat, ref)

add_vertex_normals(b, size, data, ref) ==
    add_attribute_str(b, VertexNormalsDescriptor, size, data, SizeofFloat, ref)

\* The data pointer is a float* here too.
add_material_ids(b, size, data, ref) ==
    add_attribute_str(b, MaterialIdsDescriptor, size, data, SizeofFloat, ref)

\* from_string of the literal, the index set to id, then add_attribute.
add_map_channel_data(b, id, size, data, ref) ==
    UNION { IF p.res # "ok" THEN {Run(p.res, p.err, b, p.clean)}
            ELSE {After(p, r) :
                    r \in add_attribute_runs(b, [p.val EXCEPT !.attribute_type_index = id],
                                             size, data, SizeofFloat, ref)}
          : p \in from_string_runs(b, MapChannelDataDescriptor) }

add_map_channel_index(b, id, size, data, ref) ==
    UNION { IF p.res # "ok" THEN {Run(p.res, p.err, b, p.clean)}
            ELSE {After(p, r) :
                    r \in add_attribute_runs(b, [p.val EXCEPT !.attribute_type_index = id],
                                             size, data, SizeofInt32, ref)}
          : p \in from_string_runs(b, MapChannelIndexDescriptor) }

\* add_map_channel: the data attribute, then the index attribute on what the
\* first call left; an exception of either call ends it there.
add_map_channel(b, id, texture_vertices, num_texture_vertices, texture_indices, num_texture_faces, ref) ==
    UNION { IF r1.res # "ok" THEN {r1}
            ELSE {After(r1, r2) :
                    r2 \in add_map_channel_index(r1.b, id, num_texture_faces * 3, texture_indices, ref)}
          : r1 \in add_map_channel_data(b, id, num_texture_vertices * 3, texture_vertices, ref) }

(***************************************************************************)
(* State                                                                   *)
(***************************************************************************)

\* A call that has not run yet.
Pending == [res |-> "pending", err |-> "", val |-> <<>>]

(***************************************************************************)
(* The descriptor's operations, each applied once to an input drawn from   *)
(* a bounded set                                                           *)
(***************************************************************************)

\* attribute_type_index ranges over -1..MaxIndex, data_arity over -1..MaxArity.
MaxIndex == 1

MaxArity == 3

\* Every enumerator of each enumeration, and one value on either side of it.
AssociationInputs == (0 - 1)..(assoc_invalid + 1)

AttributeTypeInputs == (0 - 1)..(attr_invalid + 1)

DataTypeInputs == (0 - 1)..(dt_invalid + 1)

IndexInputs == (0 - 1)..MaxIndex

ArityInputs == (0 - 1)..MaxArity

DescriptorInputs ==
    {Descriptor(a, t, i, n, dt) :
        a \in AssociationInputs, t \in AttributeTypeInputs, i \in IndexInputs,
        n \in ArityInputs, dt \in DataTypeInputs}

ValidDescriptorInputs == {d \in DescriptorInputs : validate(d) = ""}

\* The tokens tried at each of the positions of g3d:<association>:<attribute_type>:
\* <attribute_type_index>:<data_type>:<data_arity>, and at a seventh.
FirstTokens ==
    { <<"g", "3", "d">>,  \* "g3d"
      <<"h", "3", "d">>,  \* "h3d"
      <<>> }  \* ""

AssociationTokens ==
    { <<"v", "e", "r", "t", "e", "x">>,  \* "vertex"
      <<"n", "o", "n", "e">>,  \* "none"
      <<"b", "o", "g", "u", "s">> }  \* "bogus"

AttributeTypeTokens ==
    { <<"u", "v">>,  \* "uv"
      <<"c", "o", "l", "o", "r">>,  \* "color"
      <<"m", "a", "p", "_", "c", "h", "a", "n", "n", "e", "l", "_", "d", "a", "t", "a">> }  \* "map_channel_data"

IndexTokens ==
    { <<"0">>,  \* "0"
      <<"1", "2">>,  \* "12"
      <<"0", "x">>,  \* "0x"
      <<"x">>,  \* "x"
      <<"0", "1">>,  \* "01"
      <<"2", "1", "4", "7", "4", "8", "3", "6", "4", "8">>,  \* "2147483648"
      <<>> }  \* ""

DataTypeTokens ==
    { <<"f", "l", "o", "a", "t", "3", "2">>,  \* "float32"
      <<"f", "l", "o", "a", "t", "1", "6">>,  \* "float16"
      <<"f", "l", "t">> }  \* "flt"

ArityTokens ==
    { <<"2">>,  \* "2"
      <<"0">>,  \* "0"
      <<"2", "x">>,  \* "2x"
      <<"x">>,  \* "x"
      <<>> }  \* ""

ExtraTokens ==
    { <<"e", "x", "t", "r", "a">>,  \* "extra"
      <<>> }  \* ""

\* The token sequences of 0 to 7 tokens.
TokenSeqInputs ==
    {<<>>}
    \cup {<<a>> : a \in FirstTokens}
    \cup {<<a, b>> : a \in FirstTokens, b \in AssociationTokens}
    \cup {<<a, b, c>> : a \in FirstTokens, b \in AssociationTokens, c \in AttributeTypeTokens}
    \cup {<<a, b, c, d>> : a \in FirstTokens, b \in AssociationTokens, c \in AttributeTypeTokens, d \in IndexTokens}
    \cup {<<a, b, c, d, e>> : a \in FirstTokens, b \in AssociationTokens, c \in AttributeTypeTokens, d \in IndexTokens, e \in DataTypeTokens}
    \cup {<<a, b, c, d, e, f>> : a \in FirstTokens, b \in AssociationTokens, c \in AttributeTypeTokens, d \in IndexTokens, e \in DataTypeTokens, f \in ArityTokens}
    \cup {<<a, b, c, d, e, f, g>> : a \in FirstTokens, b \in AssociationTokens, c \in AttributeTypeTokens, d \in IndexTokens, e \in DataTypeTokens, f \in ArityTokens, g \in ExtraTokens}

\* Tokens joined by ':' (an empty last token leaves a trailing ':').
RECURSIVE JoinTokens(_)
JoinTokens(ts) ==
    IF ts = <<>> THEN <<>>
    ELSE IF Len(ts) = 1 THEN ts[1]
    ELSE ts[1] \o <<":">> \o JoinTokens(Tail(ts))

StringInputs == {JoinTokens(ts) : ts \in TokenSeqInputs}

\* Names looked up in the registries: registered ones, the two map channel names,
\* the spellings the convenience constructors use, and unknown ones.
NameInputs ==
    { <<"u", "i", "n", "t", "8">>,  \* "uint8"
      <<"f", "l", "o", "a", "t", "3", "2">>,  \* "float32"
      <<"f", "l", "o", "a", "t", "1", "2", "8">>,  \* "float128"
      <<"v", "e", "r", "t", "e", "x">>,  \* "vertex"
      <<"n", "o", "n", "e">>,  \* "none"
      <<"c", "u", "s", "t", "o", "m">>,  \* "custom"
      <<"u", "v">>,  \* "uv"
      <<"p", "e", "r", "v", "e", "r", "t", "e", "x">>,  \* "pervertex"
      <<"i", "n", "v", "a", "l", "i", "d">>,  \* "invalid"
      <<"m", "a", "p", "c", "h", "a", "n", "n", "e", "l", "_", "d", "a", "t", "a">>,  \* "mapchannel_data"
      <<"m", "a", "p", "c", "h", "a", "n", "n", "e", "l", "_", "i", "n", "d", "e", "x">>,  \* "mapchannel_index"
      <<"m", "a", "p", "_", "c", "h", "a", "n", "n", "e", "l", "_", "d", "a", "t", "a">>,  \* "map_channel_data"
      <<"m", "a", "t", "e", "r", "i", "a", "l", "_", "i", "d">>,  \* "material_id"
      <<"b", "o", "g", "u", "s">>,  \* "bogus"
      <<>> }  \* ""

Registries == {"DataType", "Association", "AttributeType"}

\* name_of / value_of of a registry: the to_string / from_string function of it.
name_of(registry, v) ==
    CASE registry = "DataType"      -> data_type_to_string(v)
      [] registry = "Association"   -> association_to_string(v)
      [] registry = "AttributeType" -> attribute_type_to_string(v)

value_of(registry, s) ==
    CASE registry = "DataType"      -> data_type_from_string(s)
      [] registry = "Association"   -> association_from_string(s)
      [] registry = "AttributeType" -> attribute_type_from_string(s)

\* The enumerators of a registry's enumeration, its `invalid` included.
EnumValues(registry) ==
    CASE registry = "DataType"      -> dt_uint8..dt_invalid
      [] registry = "Association"   -> assoc_vertex..assoc_invalid
      [] registry = "AttributeType" -> attr_custom..attr_invalid

DescriptorCalls ==
    [op : {"validate"}, desc : DescriptorInputs]
    \cup [op : {"to_string"}, desc : ValidDescriptorInputs, ub : UBOutcomes]
    \cup [op : {"round_trip"}, desc : ValidDescriptorInputs, ub1 : UBOutcomes, ub2 : UBOutcomes]
    \cup [op : {"from_string"}, str : StringInputs, ub : UBOutcomes]
    \cup [op : {"name_of"}, registry : Registries, value : AttributeTypeInputs]
    \cup [op : {"value_of"}, registry : Registries, name : NameInputs]
    \cup [op : {"name_round_trip"}, registry : Registries, value : AttributeTypeInputs]
    \cup [op : {"data_type_size"}, dt : DataTypeInputs]

InitDescriptor ==
    /\ builders = <<>>
    /\ container = "map"
    /\ ref_arguments = "range"
    /\ call \in DescriptorCalls
    /\ ret = Pending

\* d.validate(): const, so the descriptor after the call is the one before it.
CallValidate ==
    /\ call.op = "validate" /\ ret = Pending
    /\ ret' = [res  |-> IF validate(call.desc) = "" THEN "ok" ELSE "throw",
               err  |-> validate(call.desc),
               val  |-> call.desc]
    /\ UNCHANGED <<builders, call, container, ref_arguments>>

\* auto s = d.to_string();
CallToString ==
    /\ call.op = "to_string" /\ ret = Pending
    /\ ret' = to_string_copy(call.desc, call.ub)
    /\ UNCHANGED <<builders, call, container, ref_arguments>>

\* AttributeDescriptor::from_string(d.to_string()) for a descriptor that validates.
RoundTrip ==
    /\ call.op = "round_trip" /\ ret = Pending
    /\ LET s == to_string_copy(call.desc, call.ub1)
       IN  ret' = IF s.res # "ok" THEN s ELSE from_string(s.val, call.ub2)
    /\ UNCHANGED <<builders, call, container, ref_arguments>>

\* AttributeDescriptor::from_string(s)
CallFromString ==
    /\ call.op = "from_string" /\ ret = Pending
    /\ ret' = from_string(call.str, call.ub)
    /\ UNCHANGED <<builders, call, container, ref_arguments>>

\* X_to_string(v)
CallNameOf ==
    /\ call.op = "name_of" /\ ret = Pending
    /\ ret' = name_of(call.registry, call.value)
    /\ UNCHANGED <<builders, call, container, ref_arguments>>

\* X_from_string(s)
CallValueOf ==
    /\ call.op = "value_of" /\ ret = Pending
    /\ ret' = value_of(call.registry, call.name)
    /\ UNCHANGED <<builders, call, container, ref_arguments>>

\* X_from_string(X_to_string(v))
NameRoundTrip ==
    /\ call.op = "name_round_trip" /\ ret = Pending
    /\ LET n == name_of(call.registry, call.value)
       IN  ret' = IF n.res # "ok" THEN n ELSE value_of(call.registry, n.val)
    /\ UNCHANGED <<builders, call, container, ref_arguments>>

\* AttributeDescriptor::data_type_size(dt), the static function.
CallDataTypeSize ==
    /\ call.op = "data_type_size" /\ ret = Pending
    /\ ret' = data_type_size(call.dt)
    /\ UNCHANGED <<builders, call, container, ref_arguments>>

NextDescriptor ==
    \/ CallValidate
    \/ CallToString
    \/ RoundTrip
    \/ CallFromString
    \/ CallNameOf
    \/ CallValueOf
    \/ NameRoundTrip
    \/ CallDataTypeSize

SpecDescriptor == InitDescriptor /\ [][NextDescriptor]_vars

(***************************************************************************)
(* Attribute and builder construction, each applied once to an input drawn *)
(* from a bounded set                                                      *)
(***************************************************************************)

\* Byte ranges of 0..MaxBytes bytes, element counts of 0..MaxCount.
MaxBytes == 24

MaxCount == 4

\* sizeof(T) of the builders' template parameter.
TSizes == {1, 2, 4, 8}

\* Arities whose product with a data type size does not fit an int32_t:
\* 2^29, 2^30, 2^30 + 1 and INT32_MAX.
OverflowArities == {536870912, 1073741824, 1073741825, INT32_MAX}

\* The arities of the elements: the small ones, and those of an overflow.
ElementArities == ArityInputs \cup OverflowArities

\* Only the data type and the arity of a descriptor bear on construction.
ElementDescriptors ==
    {Descriptor(assoc_vertex, attr_coordinate, 0, n, dt) : n \in ElementArities, dt \in DataTypeInputs}

\* The data pointers: null, and the addresses of two arrays.
DataPointers == {nullptr, 16, 28}

\* What reading beyond the source does.
OverreadOutcomes == {"stray", "crash"}

AttributeCalls ==
    [op : {"attribute"}, desc : ElementDescriptors, begin_null : BOOLEAN, end_null : BOOLEAN,
     bytes : 0..MaxBytes, div0 : DivZeroOutcomes, ovf : IntOverflowOutcomes]
    \cup [op : {"ref"}, desc : ElementDescriptors, begin : DataPointers \ {nullptr},
          count : 0..MaxCount, tsize : TSizes,
          div0 : DivZeroOutcomes, ovf : IntOverflowOutcomes]
    \cup [op : {"own"}, desc : ElementDescriptors, size : 0..MaxCount, tsize : TSizes,
          has_data : BOOLEAN, src_len : {0, 4, 12, 16, MaxBytes}, div0 : DivZeroOutcomes,
          ovf : IntOverflowOutcomes, over : OverreadOutcomes]

InitAttribute ==
    /\ builders = <<>>
    /\ container = "map"
    /\ ref_arguments = "range"
    /\ call \in AttributeCalls
    /\ ret = Pending

\* Attribute a(desc, begin, end);
ConstructAttribute ==
    /\ call.op = "attribute" /\ ret = Pending
    /\ ret' = Attribute(call.desc, call.begin_null, call.end_null, call.bytes, call.div0,
                        call.ovf)
    /\ UNCHANGED <<builders, call, container, ref_arguments>>

\* AttributeBuilderRef<T> r(desc, begin, begin + count);
ConstructRef ==
    /\ call.op = "ref" /\ ret = Pending
    /\ ret' = AttributeBuilderRef(call.desc, call.begin, call.begin + call.count * call.tsize,
                                  call.div0, call.ovf)
    /\ UNCHANGED <<builders, call, container, ref_arguments>>

\* AttributeBuilderOwn<T> o(desc, size, data);
ConstructOwn ==
    /\ call.op = "own" /\ ret = Pending
    /\ ret' = AttributeBuilderOwn(call.desc, call.size, call.tsize, call.has_data,
                                  call.src_len, call.div0, call.ovf, call.over)
    /\ UNCHANGED <<builders, call, container, ref_arguments>>

NextAttribute ==
    \/ ConstructAttribute
    \/ ConstructRef
    \/ ConstructOwn

SpecAttribute == InitAttribute /\ [][NextAttribute]_vars

(***************************************************************************)
(* The collection's operations                                             *)
(***************************************************************************)

\* At most MaxAttrs attributes are stored.
MaxAttrs == 2

\* The descriptors passed to add_attribute(const AttributeDescriptor&, ...):
\* uv channels 0 and 1 of float32 pairs.
DescriptorArguments ==
    {Descriptor(assoc_vertex, attr_uv, i, 2, dt_float32) : i \in {0, 1}}

\* The `size` arguments: a multiple of the arities 1 and 2, and one that is
\* no multiple of 2.
SizeArguments == {3, 4}

\* The `size` argument of the operations that take a descriptor string or
\* hold one: an even number of values.
StringSizeArguments == {4}

\* The `data` argument of those operations: null, and the address of an array.
StringDataPointers == {nullptr, 28}

\* The `id` arguments of the map channel operations.
ChannelIds == {0, 1}

TextureVertexCounts == {1, 3}

TextureFaceCounts == {2}

\* G3d(vertex_count, face_count, corner_count, polygon_size): the body is
\* empty, the collection starts empty.
Init ==
    /\ builders = <<>>
    /\ container \in Containers
    /\ ref_arguments \in RefArguments
    /\ call = [op |-> "G3d"]
    /\ ret = [res |-> "ok", err |-> "", clean |-> TRUE]

\* A fault ends the process: nothing runs after it.
Running == ret.res # "crash"

CanAdd == Running /\ Len(builders) < MaxAttrs

\* The call ends as run r; clean stays TRUE as long as every call so far
\* was clean.
Finish(r) ==
    /\ ret' = [res |-> r.res, err |-> r.err, clean |-> ret.clean /\ r.clean]
    /\ builders' = r.b
    /\ UNCHANGED <<container, ref_arguments>>

AddAttribute ==
    /\ CanAdd
    /\ \E desc \in DescriptorArguments, size \in SizeArguments, data \in DataPointers,
          u \in UBOutcomes :
        /\ call' = [op |-> "add_attribute", desc |-> desc, size |-> size]
        /\ Finish(add_attribute(builders, desc, size, data, SizeofFloat, u, ref_arguments))

AddAttributeString ==
    /\ CanAdd
    /\ \E s \in StringArguments, size \in StringSizeArguments, data \in StringDataPointers :
        /\ call' = [op |-> "add_attribute_str", str |-> s, size |-> size]
        /\ \E r \in add_attribute_str(builders, s, size, data, SizeofFloat, ref_arguments) : Finish(r)

AddVertices ==
    /\ CanAdd
    /\ \E size \in StringSizeArguments, data \in StringDataPointers :
        /\ call' = [op |-> "add_vertices", size |-> size]
        /\ \E r \in add_vertices(builders, size, data, ref_arguments) : Finish(r)

AddVerticesAsFloat4 ==
    /\ CanAdd
    /\ \E size \in StringSizeArguments, data \in StringDataPointers :
        /\ call' = [op |-> "add_vertices_as_float4", size |-> size]
        /\ \E r \in add_vertices_as_float4(builders, size, data, ref_arguments) : Finish(r)

AddIndexes ==
    /\ CanAdd
    /\ \E size \in StringSizeArguments, data \in StringDataPointers :
        /\ call' = [op |-> "add_indexes", size |-> size]
        /\ \E r \in add_indexes(builders, size, data, ref_arguments) : Finish(r)

AddUvs ==
    /\ CanAdd
    /\ \E size \in StringSizeArguments, data \in StringDataPointers :
        /\ call' = [op |-> "add_uvs", size |-> size]
        /\ \E r \in add_uvs(builders, size, data, ref_arguments) : Finish(r)

AddUv2s ==
    /\ CanAdd
    /\ \E size \in StringSizeArguments, data \in StringDataPointers :
        /\ call' = [op |-> "add_uv2s", size |-> size]
        /\ \E r \in add_uv2s(builders, size, data, ref_arguments) : Finish(r)

AddVertexNormals ==
    /\ CanAdd
    /\ \E size \in StringSizeArguments, data \in StringDataPointers :
        /\ call' = [op |-> "add_vertex_normals", size |-> size]
        /\ \E r \in add_vertex_normals(builders, size, data, ref_arguments) : Finish(r)

AddMaterialIds ==
    /\ CanAdd
    /\ \E size \in StringSizeArguments, data \in StringDataPointers :
        /\ call' = [op |-> "add_material_ids", size |-> size]
        /\ \E r \in add_material_ids(builders, size, data, ref_arguments) : Finish(r)

AddMapChannelData ==
    /\ CanAdd
    /\ \E id \in ChannelIds, size \in StringSizeArguments, data \in StringDataPointers :
        /\ call' = [op |-> "add_map_channel_data", id |-> id, size |-> size]
        /\ \E r \in add_map_channel_data(builders, id, size, data, ref_arguments) : Finish(r)

AddMapChannelIndex ==
    /\ CanAdd
    /\ \E id \in ChannelIds, size \in StringSizeArguments, data \in StringDataPointers :
        /\ call' = [op |-> "add_map_channel_index", id |-> id, size |-> size]
        /\ \E r \in add_map_channel_index(builders, id, size, data, ref_arguments) : Finish(r)

AddMapChannel ==
    /\ CanAdd
    /\ \E id \in ChannelIds, nv \in TextureVertexCounts, nf \in TextureFaceCounts,
          texture_vertices \in StringDataPointers, texture_indices \in StringDataPointers :
        /\ call' = [op |-> "add_map_channel", id |-> id, num_texture_vertices |-> nv,
                    num_texture_faces |-> nf]
        /\ \E r \in add_map_channel(builders, id, texture_vertices, nv, texture_indices, nf, ref_arguments) : Finish(r)

Next ==
    \/ AddAttribute
    \/ AddAttributeString
    \/ AddVertices
    \/ AddVerticesAsFloat4
    \/ AddIndexes
    \/ AddUvs
    \/ AddUv2s
    \/ AddVertexNormals
    \/ AddMaterialIds
    \/ AddMapChannelData
    \/ AddMapChannelIndex
    \/ AddMapChannel

Spec == Init /\ [][Next]_vars

(***************************************************************************)
(* The container: writing a collection as a sequence of arrays             *)
(***************************************************************************)

\* g3d.h holds no writer: its header (l.60-69) only documents the arrays of
\* the BFAST container.  The writer below follows the write contract of the
\* specification: it is given the ordered key sequence and the collection.
\* The key sequence the code can give it is the enumeration of builders, and
\* the byte sizes are those of the code's attributes.

\* sizeof(AttributeDescriptor): 8 int32_t fields, the 3 pad fields included.
DescriptorRecordBytes == 8 * SizeofInt32

\* An array of the container: what it holds, the keys of the attributes it
\* holds it for, and its length in bytes.
Array(kind, keys, size) == [kind |-> kind, keys |-> keys, size |-> size]

\* The entry b stores under key k.
EntryOf(b, k) == b[CHOOSE i \in 1..Len(b) : b[i].key = k]

\* For each key in the order of keys: the data array of its attribute, the
\* bytes of its Attribute, then its index array.  No builder of g3d.h has an
\* index buffer: the index array is of length zero.
RECURSIVE ArrayPairs(_, _)
ArrayPairs(keys, b) ==
    IF keys = <<>> THEN <<>>
    ELSE <<Array("data", <<Head(keys)>>, EntryOf(b, Head(keys)).builder.attribute.byte_size),
           Array("index", <<Head(keys)>>, 0)>>
         \o ArrayPairs(Tail(keys), b)

\* write: array 0 the metadata, array 1 the descriptor records of the
\* attributes in the order of keys, then the pairs in that order.
write(keys, b, metadata_size) ==
    <<Array("metadata", <<>>, metadata_size),
      Array("descriptors", keys, Len(keys) * DescriptorRecordBytes)>>
    \o ArrayPairs(keys, b)

\* The lengths of the metadata text.
MetadataSizes == {0, 2}

\* The descriptors of the mesh attributes added before writing: float32 x 3
\* per vertex, int32 x 1 per corner, float32 x 2 per vertex.
MeshDescriptorArguments ==
    {Descriptor(assoc_vertex, attr_coordinate, 0, 3, dt_float32),
     Descriptor(assoc_corner, attr_index, 0, 1, dt_int32),
     Descriptor(assoc_vertex, attr_uv, 0, 2, dt_float32)}

\* The `size` arguments: 6 and 12 values.
MeshSizeArguments == {6, 12}

\* add_attribute<float> / add_attribute<int32_t> with a mesh descriptor.
AddMeshAttribute ==
    /\ CanAdd
    /\ \E desc \in MeshDescriptorArguments, size \in MeshSizeArguments, data \in DataPointers,
          u \in UBOutcomes :
        /\ call' = [op |-> "add_attribute", desc |-> desc, size |-> size]
        /\ Finish(add_attribute(builders, desc, size, data, SizeofFloat, u, ref_arguments))

\* The collection is written with its keys as it enumerates them; it is left
\* as it was.
Write ==
    /\ Running
    /\ \E m \in MetadataSizes :
        /\ call' = [op |-> "write", metadata_size |-> m]
        /\ ret' = [res |-> "ok", err |-> "", clean |-> ret.clean,
                   arrays |-> write(Keys(builders, container), builders, m)]
    /\ UNCHANGED <<builders, container, ref_arguments>>

NextContainer ==
    \/ AddMeshAttribute
    \/ Write

SpecContainer == Init /\ [][NextContainer]_vars
(***************************************************************************)
(* Claims about the descriptor and the registries (SpecDescriptor)         *)
(***************************************************************************)

Done(op) == call.op = op /\ ret # Pending

\* C1: for every descriptor d that passes validate(), from_string(d.to_string())
\* succeeds and returns a descriptor whose five fields equal those of d.  Stated
\* for the runs in which both copies of to_string()'s result read the text intact.
C1_RoundTrip ==
    (Done("round_trip") /\ call.ub1 = "intact" /\ call.ub2 = "intact")
        => (ret.res = "ok" /\ ret.val = call.desc)

\* The fields separated by ':' as the claim counts them: k colons, k + 1 fields.
RECURSIVE Fields(_)
Fields(s) ==
    IF \E i \in 1..Len(s) : s[i] = ":"
    THEN LET i == CHOOSE j \in 1..Len(s) : s[j] = ":" /\ \A k \in 1..(j - 1) : s[k] # ":"
         IN  <<SubSeq(s, 1, i - 1)>> \o Fields(SubSeq(s, i + 1, Len(s)))
    ELSE <<s>>

\* A base-10 integer: digits only, after an optional '-'.
IsBase10Integer(t) ==
    LET ds == IF t # <<>> /\ Head(t) = "-" THEN Tail(t) ELSE t
    IN  ds # <<>> /\ \A i \in 1..Len(ds) : IsDigit(ds[i])

\* A token that is the registered name of a valid enumerator (not `invalid`).
NamesValid(table, t, invalid) == \E v \in DOMAIN table : table[v] = t /\ v < invalid

\* The inputs C2 is about: no first token g3d, a number of fields other than 6,
\* or an index or arity field that is no base-10 integer.
C2_Malformed(s) ==
    LET f == Fields(s)
    IN  \/ f[1] # <<"g", "3", "d">>
        \/ Len(f) # 6
        \/ ~IsBase10Integer(f[4])
        \/ ~IsBase10Integer(f[6])

\* The input has no defect of another kind: the association, attribute type and
\* data type fields it has are registered names of valid enumerators, its index
\* and arity fields, when they are integers, fit an int, and the arity is at
\* least 1.
C2_NoOtherDefect(s) ==
    LET f == Fields(s)
    IN  /\ Len(f) >= 2 => NamesValid(associations_to_strings, f[2], assoc_invalid)
        /\ Len(f) >= 3 => NamesValid(attribute_types_to_strings, f[3], attr_invalid)
        /\ Len(f) >= 5 => NamesValid(data_types_to_strings, f[5], dt_invalid)
        /\ (Len(f) >= 4 /\ IsBase10Integer(f[4])) => stoi(f[4]).res = "ok"
        /\ (Len(f) >= 6 /\ IsBase10Integer(f[6])) =>
                (stoi(f[6]).res = "ok" /\ stoi(f[6]).val >= 1)

\* C2: from_string fails with a MalformedError for every input that lacks the
\* first token g3d, has fewer or more than 6 tokens, or whose index or arity
\* token is not a base-10 integer.  Stated for inputs with no defect of another
\* kind, and for the runs in which the copy of to_string()'s result reads the
\* text intact.
C2_MalformedError ==
    (Done("from_string") /\ call.ub = "intact"
        /\ C2_Malformed(call.str) /\ C2_NoOtherDefect(call.str))
        => (ret.res = "throw" /\ ErrorKind(ret.err) = "MalformedError")

\* C3: in each registry every enumerator has a name, value_of(name_of(v)) = v
\* (so the names are pairwise distinct), and value_of fails with a lookup error
\* for every string that is no registered name.
C3_RegistriesBidirectional ==
    /\ (Done("name_of") /\ call.value \in EnumValues(call.registry))
            => ret.res = "ok"
    /\ (Done("name_round_trip") /\ call.value \in EnumValues(call.registry))
            => (ret.res = "ok" /\ ret.val = call.value)
    /\ (Done("value_of")
            /\ \A v \in EnumValues(call.registry) :
                    name_of(call.registry, v).res = "ok" => name_of(call.registry, v).val # call.name)
            => (ret.res = "throw" /\ ErrorKind(ret.err) = "LookupError")

\* The enum fields of d that lie outside their enumeration's valid span.
EnumOutOfSpan(d) ==
    \/ ~(0 <= d.association /\ d.association < assoc_invalid)
    \/ ~(0 <= d.attribute_type /\ d.attribute_type < attr_invalid)
    \/ ~(0 <= d.data_type /\ d.data_type < dt_invalid)

\* C10: validate() succeeds exactly when the three enum fields are in their spans
\* and data_arity >= 1, whatever attribute_type_index is; otherwise it fails, with
\* a RangeError only when an enum field is out of its span (and always when
\* data_arity >= 1), with an ArityError only when data_arity <= 0 (and always when
\* the enum fields are in their spans); the descriptor is left as it was.
C10_Validate ==
    Done("validate") =>
        LET d == call.desc
        IN  /\ ret.val = d
            /\ ret.res \in {"ok", "throw"}
            /\ ret.res = "ok" <=> (~EnumOutOfSpan(d) /\ d.data_arity >= 1)
            /\ ret.res = "throw" =>
                /\ ErrorKind(ret.err) \in {"RangeError", "ArityError"}
                /\ ErrorKind(ret.err) = "RangeError" => EnumOutOfSpan(d)
                /\ ErrorKind(ret.err) = "ArityError" => d.data_arity <= 0
                /\ (EnumOutOfSpan(d) /\ d.data_arity >= 1) => ErrorKind(ret.err) = "RangeError"
                /\ (~EnumOutOfSpan(d) /\ d.data_arity <= 0) => ErrorKind(ret.err) = "ArityError"

\* C10 witness: validate() has thrown the arity error on a descriptor whose data
\* type is out of its span as well and whose attribute_type_index is negative.
C10_Witness ==
    /\ Done("validate")
    /\ ret.res = "throw" /\ ErrorKind(ret.err) = "ArityError"
    /\ call.desc.data_type >= dt_invalid
    /\ call.desc.attribute_type_index < 0

(***************************************************************************)
(* Claims about Attribute and the owning builder (SpecAttribute)           *)
(***************************************************************************)

\* The descriptor has a valid data type and an arity of at least 1.
ValidElement(d) == 0 <= d.data_type /\ d.data_type < dt_invalid /\ d.data_arity >= 1

\* size * arity is at most INT32_MAX (size >= 1, arity >= 1).  A greater
\* product is greater than every length and count of the model.
Fits(size, arity) == arity <= INT32_MAX \div size

\* n is a multiple of size * arity: of a product beyond INT32_MAX, 0 only.
IsMultiple(n, size, arity) == IF Fits(size, arity) THEN n % (size * arity) = 0 ELSE n = 0

\* num_elements * data_element_size = byte_size for attribute a, whose
\* data_element_size is the size_t of the int32_t p: for p < 0 the element size
\* is 2^64 + p, and the equation has the one solution 0 * (2^64 + p) = 0.
ElementsFill(a, p) ==
    IF p >= 0 THEN a.num_elements * a.data_element_size = a.byte_size
    ELSE a.num_elements = 0 /\ a.byte_size = 0

\* C5: for a descriptor with a valid data type and arity >= 1 and a non-null
\* byte range, construction fails, with an AlignmentError, exactly when the
\* range's length is not a multiple of data_type_size(data_type) * data_arity;
\* when it succeeds, data_element_size is that product where an int32_t holds
\* it, and num_elements * data_element_size = byte_size.
C5_Alignment ==
    (Done("attribute") /\ ValidElement(call.desc) /\ ~call.begin_null /\ ~call.end_null) =>
        LET Aligned(size, arity) ==
                IF ~IsMultiple(call.bytes, size, arity)
                THEN ret.res = "throw" /\ ErrorKind(ret.err) = "AlignmentError"
                ELSE /\ ret.res = "ok"
                     /\ ret.val.byte_size = call.bytes
                     /\ Fits(size, arity) => ret.val.data_element_size = size * arity
                     /\ ElementsFill(ret.val, element_product(call.desc, call.ovf).val)
        IN  Aligned(data_type_size(call.desc.data_type).val, call.desc.data_arity)

\* C7: an owning store built from (descriptor, element_count), its T the
\* descriptor's primitive type, holds element_count * data_element_size bytes and
\* reports num_elements = element_count; with a source of at least that many
\* bytes the buffer equals the source's prefix of that length, and with a
\* shorter source construction fails with a CopyRangeError.  The number of
\* bytes is compared only where it is at most INT32_MAX; beyond, it is greater
\* than the source's length and than the length of every buffer.
C7_OwningStore ==
    (Done("own") /\ ValidElement(call.desc) /\ call.size >= 1
        /\ call.tsize = data_type_size(call.desc.data_type).val) =>
        LET Stored(fits) ==
                IF call.has_data /\ (~fits \/ call.src_len < call.size * call.tsize * call.desc.data_arity)
                THEN ret.res = "throw" /\ ErrorKind(ret.err) = "CopyRangeError"
                ELSE /\ ret.res = "ok"
                     /\ fits
                     /\ ret.val.attribute.byte_size = call.size * call.tsize * call.desc.data_arity
                     /\ ret.val.attribute.num_elements = call.size
                     /\ Len(ret.val.buffer) = call.size * call.tsize * call.desc.data_arity
                     /\ call.has_data =>
                            \A i \in 1..(call.size * call.tsize * call.desc.data_arity) :
                                ret.val.buffer[i] = SourceByte(i)
        IN  Stored(Fits(call.size * call.tsize, call.desc.data_arity))
(***************************************************************************)
(* Claims about the collection (Spec)                                      *)
(***************************************************************************)

\* The call of the step is op, and each copy of a to_string() result up to and
\* in it read the text.
Called(op) == call'.op = op /\ ret'.clean

\* The step stores one more attribute.
OneMore == Len(builders') = Len(builders) + 1

\* C4: no two stored attributes share a key; add_attribute with a descriptor
\* whose string is a key already fails with a DuplicateAttributeError and
\* stores nothing, with a new key and an aligned size it succeeds and stores
\* one more attribute; add_uvs and add_uv2s, on a collection without their
\* key and with an even number of floats, succeed and store one more
\* attribute (uv index 0, then uv index 1).
C4_Uniqueness ==
    [][ /\ \A i, j \in 1..Len(builders') : i # j => builders'[i].key # builders'[j].key
        /\ Called("add_attribute") =>
             IF Find(builders, to_string(call'.desc).val)
             THEN /\ ret'.res = "throw"
                  /\ ErrorKind(ret'.err) = "DuplicateAttributeError"
                  /\ builders' = builders
             ELSE call'.size % call'.desc.data_arity = 0 => ret'.res = "ok" /\ OneMore
        /\ (Called("add_uvs") /\ ~Find(builders, UvsDescriptor) /\ call'.size % 2 = 0) =>
             ret'.res = "ok" /\ OneMore
        /\ (Called("add_uv2s") /\ ~Find(builders, Uv2sDescriptor) /\ call'.size % 2 = 0) =>
             ret'.res = "ok" /\ OneMore
      ]_vars

\* The part of C4 that is about add_attribute by descriptor alone; its last
\* clause, the success of an add with a new key, where the reference builder
\* is given the range of `size` values at data.
C4_ByDescriptor ==
    [][ /\ \A i, j \in 1..Len(builders') : i # j => builders'[i].key # builders'[j].key
        /\ Called("add_attribute") =>
             IF Find(builders, to_string(call'.desc).val)
             THEN /\ ret'.res = "throw"
                  /\ ErrorKind(ret'.err) = "DuplicateAttributeError"
                  /\ builders' = builders
             ELSE (ref_arguments = "range" /\ call'.size % call'.desc.data_arity = 0) =>
                    ret'.res = "ok" /\ OneMore
      ]_vars

\* The keys the spec gives the two attributes of map channel id.
MapChannelDataKey(id) ==
    <<"g", "3", "d", ":", "n", "o", "n", "e", ":",
      "m", "a", "p", "c", "h", "a", "n", "n", "e", "l", "_", "d", "a", "t", "a", ":">>
    \o IntToString(id) \o <<":", "f", "l", "o", "a", "t", "3", "2", ":", "3">>

MapChannelIndexKey(id) ==
    <<"g", "3", "d", ":", "c", "o", "r", "n", "e", "r", ":",
      "m", "a", "p", "c", "h", "a", "n", "n", "e", "l", "_", "i", "n", "d", "e", "x", ":">>
    \o IntToString(id) \o <<":", "i", "n", "t", "3", "2", ":", "1">>

\* The entry stored under key k has n elements.
HasElements(b, k, n) ==
    \E i \in 1..Len(b) : b[i].key = k /\ b[i].builder.attribute.num_elements = n

\* C6: add_map_channel(id, ...) on a collection with neither key of channel id
\* succeeds and stores exactly two more attributes: the mapchannel_data one
\* with num_texture_vertices elements and the mapchannel_index one with
\* 3 * num_texture_faces elements; the entries stored before are unchanged.
C6_MapChannel ==
    [][ (/\ Called("add_map_channel")
         /\ ~Find(builders, MapChannelDataKey(call'.id))
         /\ ~Find(builders, MapChannelIndexKey(call'.id))) =>
            /\ ret'.res = "ok"
            /\ Len(builders') = Len(builders) + 2
            /\ HasElements(builders', MapChannelDataKey(call'.id), call'.num_texture_vertices)
            /\ HasElements(builders', MapChannelIndexKey(call'.id), 3 * call'.num_texture_faces)
            /\ \A i \in 1..Len(builders) : \E j \in 1..Len(builders') : builders'[j] = builders[i]
      ]_vars

\* C8: the keys are enumerated in the order of the calls that added them,
\* whatever the order of the key strings: each successful add leaves the
\* earlier keys in their places and puts its own after them.
C8_InsertionOrder ==
    [][ (ret'.res = "ok" /\ ret'.clean /\ OneMore) =>
            Keys(builders', container) = Append(Keys(builders, container), builders'[Len(builders')].key)
      ]_vars

\* C9: an operation of the collection that fails with an exception leaves the
\* collection, keys and stored attributes, as it was before the call.
C9_FailureAtomicity ==
    [][ ret'.res = "throw" => builders' = builders ]_vars

\* C9 witness: add_attribute has failed with an AlignmentError, thrown by the
\* builder's constructor after the duplicate test passed, on a collection that
\* holds an attribute.
C9_Witness ==
    /\ call.op = "add_attribute" /\ ret.clean
    /\ ret.res = "throw" /\ ErrorKind(ret.err) = "AlignmentError"
    /\ Len(builders) >= 1
(***************************************************************************)
(* Claims about the size table and the container                           *)
(***************************************************************************)

\* The sizes the claim lists, in the order uint8..uint128, int8..int128,
\* float16..float128.
ListedSizes == <<1, 2, 4, 8, 16, 1, 2, 4, 8, 16, 2, 4, 8, 16>>

\* C11: data_type_size returns 1, 2, 4, 8, 16 for uint8..uint128, 1, 2, 4, 8,
\* 16 for int8..int128 and 2, 4, 8, 16 for float16..float128, and throws for
\* dt_invalid and for every integer that is no enumerator of DataType.
C11_SizeTable ==
    Done("data_type_size") =>
        IF dt_uint8 <= call.dt /\ call.dt < dt_invalid
        THEN ret.res = "ok" /\ ret.val = ListedSizes[call.dt - dt_uint8 + 1]
        ELSE ret.res = "throw"

\* C11 witness: data_type_size has thrown for an integer beyond dt_invalid.
C11_Witness ==
    /\ Done("data_type_size")
    /\ call.dt > dt_invalid
    /\ ret.res = "throw" /\ ret.err = "invalid data type"

\* The collection has been written, and every copy of a to_string() result
\* made so far read the text.
Written == call.op = "write" /\ ret.res = "ok" /\ ret.clean

\* The lengths of the arrays, in the order written.
Sizes(a) == [i \in 1..Len(a) |-> a[i].size]

\* The framing of C12 for collection b, metadata of m bytes and arrays a:
\* 2 + 2N arrays; the metadata; the descriptor table of N x 32 bytes, holding
\* the descriptors in key order, the order in which the keys were added; then
\* for each key in that order the data array of its attribute and its index
\* array.
Framed(b, m, a) ==
    /\ Len(a) = 2 + 2 * Len(b)
    /\ a[1].kind = "metadata" /\ a[1].size = m
    /\ a[2].kind = "descriptors" /\ a[2].size = Len(b) * 32 /\ a[2].keys = StoredKeys(b)
    /\ \A i \in 1..Len(b) :
        /\ a[2 * i + 1].kind = "data"
        /\ a[2 * i + 1].keys = <<a[2].keys[i]>>
        /\ a[2 * i + 1].size = EntryOf(b, a[2].keys[i]).builder.attribute.byte_size
        /\ a[2 * i + 2].kind = "index"
        /\ a[2 * i + 2].keys = <<a[2].keys[i]>>

\* Entry e is an attribute of n elements of data type dt and arity k.
Holds(e, dt, k, n) ==
    LET Is(t) == t.descriptor.data_type = dt /\ t.descriptor.data_arity = k /\ t.num_elements = n
    IN  Is(e.builder.attribute)

\* The collection of the example: 4 float32 x 3 vertices, added first, and 6
\* int32 indices, added second, and nothing else.
ExampleMesh(b) ==
    Len(b) = 2 /\ Holds(b[1], dt_float32, 3, 4) /\ Holds(b[2], dt_int32, 1, 6)

\* C12: the framing, and the example collection is written as 6 arrays of
\* sizes metadata, 64, 48, 0, 24, 0.
C12_WriteFraming ==
    Written =>
        /\ Framed(builders, call.metadata_size, ret.arrays)
        /\ ExampleMesh(builders) =>
                Sizes(ret.arrays) = <<call.metadata_size, 64, 48, 0, 24, 0>>
====
